---- MODULE Spec2Model ----
(***************************************************************************)
(* Interaction ledger, popularity counters and trending query of the       *)
(* question store (popularity migration, src/unnamed/part_000, over the    *)
(* questions table of supabase/migrations/001_create_questions_table.sql). *)
(*                                                                         *)
(* Every record_question_interaction call is one database transaction run  *)
(* by a session.  The sessions run in parallel; the steps of a call are    *)
(* the statements PostgreSQL executes for it under READ COMMITTED:         *)
(*   Begin    the transaction starts and NOW() is fixed                    *)
(*   Insert   INSERT ... ON CONFLICT DO NOTHING, or the exception handler  *)
(*   Trigger  update_question_popularity: UPDATE questions (row lock)      *)
(*   Commit   the new row and the new question version become visible      *)
(* Time is discrete: timestamps are clock ticks, and two calls read the    *)
(* same timestamp when the clock did not tick between them.  DayTicks      *)
(* ticks make a day.  Scores are kept times ten (2.0 -> 20, 3.0 -> 30,     *)
(* -0.1 -> -1) so that they stay integers.                                 *)
(*                                                                         *)
(* Exam-question library (src/unnamed/part_017): the chunk tables with     *)
(* their embeddings, the vector searches match_question_chunks,            *)
(* match_syllabus_sections and hybrid_search, the materialized view        *)
(* topic_stats with refresh_topic_stats, and get_topic_probability_stats.  *)
(* Each part has its own specification: SpecSearch, SpecIngest,            *)
(* SpecRefresh, SpecTwoRefresh, SpecAggregate, SpecProb, SpecRead.         *)
(* Embeddings have Dim components                                          *)
(* instead of 384; a cosine similarity is kept as the pair (dot product,   *)
(* product of the squared norms) and compared by cross-multiplication;     *)
(* thresholds are in tenths; a probability score is the fraction num/den.  *)
(*                                                                         *)
(* Web client: sanitizeAIError (src/unnamed/part_005, SpecSanitize), with  *)
(* strings as sequences of characters, and the AuthProvider component      *)
(* (src/frontend/src/context/AuthProvider.jsx, SpecAuth), whose bootstrap  *)
(* and auth-state listener run as callbacks in any order.                  *)
(***************************************************************************)
EXTENDS Integers, Sequences, FiniteSets, Bags, TLC

\* ---- bounds ----
NProcs == 2
NumQuestions == 1
NumUsers == 2
MaxTime == 2
MaxCalls == 2
MaxWindow == 2
MaxLimit == 2

Procs == 1..NProcs
Questions == 1..NumQuestions
Users == 1..NumUsers

\* a UUID that is not the id of any row of questions
MissingQuestion == 0
\* user_uuid DEFAULT NULL with auth.uid() NULL as well
NullUser == 0
\* last_viewed_at before the first view (the column has no default)
NullTime == -1
\* no session holds the row lock
NoProc == 0

\* interaction_type_param passed as NULL
NullType == "null"

\* interaction_type TEXT: the four documented values; any text is accepted
InteractionTypes == {"view", "share", "favorite", "search_result"}
ProcessingStatuses == {"pending", "completed"}

VARIABLES
    now,            \* the database clock
    questions,      \* committed rows of questions, by id
    ledger,         \* committed rows of question_interactions (a bag: row ids are random)
    pc,             \* position of each session in its call
    call,           \* arguments of the call and its transaction timestamp
    outcome,        \* what the INSERT of the call did (internal to the call)
    result,         \* the BOOLEAN returned to the caller ("none" while running)
    newver,         \* the question row version written by the trigger
    rowlock,        \* which session holds the row lock of a question
    ncalls,         \* calls started so far
    peak,           \* largest number of calls that were in progress together
    trending_out    \* what the last get_trending_questions call gave

\* the exam-question library (src/unnamed/part_017)
VARIABLES
    question_chunks,          \* rows of question_chunks
    syllabus_chunks,          \* rows of syllabus_chunks
    question_topic_mappings,  \* rows of question_topic_mappings
    topic_stats,              \* rows of the materialized view topic_stats
    refresh,                  \* the refresh_topic_stats call in progress, if any
    versions,                 \* every complete result of the view query built so far
    prob_out,                 \* what the last get_topic_probability_stats call gave
    search_req,               \* the search call that was issued
    search_out,               \* what that search call gave
    insert_out                \* how the last INSERT into a chunk table ended

\* the web client (src/unnamed/part_005, src/frontend/src/context/AuthProvider.jsx)
VARIABLES
    sanitize_in,              \* the value handed to sanitizeAIError
    sanitize_out,             \* how that call ended and what it returned
    auth                      \* the AuthProvider component and what it talks to

\* the variables of the interaction ledger
popvars == <<now, questions, ledger, pc, call, outcome, result, newver, rowlock,
             ncalls, peak, trending_out>>

\* the tables of the library
tables == <<question_chunks, syllabus_chunks, question_topic_mappings>>

\* the variables of the exam-question library
libvars == <<question_chunks, syllabus_chunks, question_topic_mappings,
             topic_stats, refresh, versions, prob_out, search_req, search_out,
             insert_out>>

\* the variables of the web client
clientvars == <<sanitize_in, sanitize_out, auth>>

vars == <<now, questions, ledger, pc, call, outcome, result, newver, rowlock,
          ncalls, peak, trending_out, question_chunks, syllabus_chunks,
          question_topic_mappings, topic_stats, refresh, versions, prob_out,
          search_req, search_out, insert_out, sanitize_in, sanitize_out, auth>>

\* met_pc, met_result: where refresh_topic_stats stood when the call ran
NoProbability == [called |-> FALSE, topic_name |-> "", subject_name |-> "",
                  years_back |-> 0, rows |-> {}, path |-> "none",
                  met_pc |-> "idle", met_result |-> "none"]

\* before: the view as it was when the refresh in progress (or the last one)
\* started; result: how the last refresh ended
\* second, second_staging: a refresh_topic_stats call of another session;
\* queued: that call had to wait for the lock of the refresh in progress
NoRefresh == [pc |-> "idle", staging |-> {}, before |-> {}, result |-> "none",
              second |-> "idle", second_staging |-> {}, queued |-> FALSE]

NoInsert == [status |-> "none", table |-> "none", embedding |-> <<>>,
             question_id |-> 0, topic_id |-> 0]

NoRequest == [fn |-> "none"]

NoSearch == [called |-> FALSE, rows |-> <<>>]

\* the library before anything was ingested: the view was created over
\* empty tables and nothing was asked yet
LibraryIdle ==
    /\ question_chunks = {}
    /\ syllabus_chunks = {}
    /\ question_topic_mappings = {}
    /\ topic_stats = {}
    /\ refresh = NoRefresh
    /\ versions = {{}}
    /\ prob_out = NoProbability
    /\ search_req = NoRequest
    /\ search_out = NoSearch
    /\ insert_out = NoInsert

NoValue == [kind |-> "undefined", text |-> <<>>]

NoSanitize == [status |-> "none", value |-> <<>>]

\* AuthProvider as mounted: session null, loading true, the bootstrap
\* waiting for getSession or its timeout.
\*   session, loading: the two useState cells ("null", "guest" or "user")
\*   guest: localStorage holds cape_session = 'guest'
\*   supabase: the session the Supabase client holds ("null" or "user")
\*   subscribed: onAuthStateChange registered the listener
\*   race, fetched: how Promise.race settled, and the session getSession gave
\*   boot: "running" until the bootstrap has run to its end
\*   elapsed: seconds since the timer of the bootstrap was set
\*   by_listener: the session in place was set by the listener on SIGNED_IN
\*                or TOKEN_REFRESHED
NoAuth == [session |-> "null", loading |-> TRUE, guest |-> FALSE,
           supabase |-> "null", subscribed |-> TRUE, race |-> "pending",
           fetched |-> "null", boot |-> "running", elapsed |-> 0,
           by_listener |-> FALSE]

\* the client before any request failed
ClientIdle ==
    /\ sanitize_in = [kind |-> "undefined", message |-> NoValue]
    /\ sanitize_out = NoSanitize
    /\ auth = NoAuth

NoCall == [question_id |-> MissingQuestion, user_id |-> NullUser,
           interaction_type |-> "view", created_at |-> 0]

NoVersion == [view_count |-> 0, share_count |-> 0, favorite_count |-> 0,
              last_viewed_at |-> NullTime, processing_status |-> "pending",
              created_at |-> 0]

NoTrending == [called |-> FALSE, days_window |-> 0, limit_count |-> 0,
               status |-> "none", rows |-> <<>>]

\* questions: view_count, share_count, favorite_count DEFAULT 0,
\* last_viewed_at NULL, processing_status as the pipeline left it
NewQuestion(status, created) ==
    [view_count |-> 0, share_count |-> 0, favorite_count |-> 0,
     last_viewed_at |-> NullTime, processing_status |-> status,
     created_at |-> created]

Init ==
    /\ now = 0
    /\ questions \in [Questions -> {NewQuestion(s, 0) : s \in ProcessingStatuses}]
    /\ ledger = EmptyBag
    /\ pc = [p \in Procs |-> "idle"]
    /\ call = [p \in Procs |-> NoCall]
    /\ outcome = [p \in Procs |-> "none"]
    /\ result = [p \in Procs |-> "none"]
    /\ newver = [p \in Procs |-> NoVersion]
    /\ rowlock = [q \in Questions |-> NoProc]
    /\ ncalls = 0
    /\ peak = 0
    /\ trending_out = NoTrending
    /\ LibraryIdle
    /\ ClientIdle

\* ---- question_interactions ----

\* the columns of the UNIQUE constraint
SameTuple(r1, r2) ==
    /\ r1.question_id = r2.question_id
    /\ r1.user_id = r2.user_id
    /\ r1.interaction_type = r2.interaction_type
    /\ r1.created_at = r2.created_at

\* the rows of a question and type, as a bag
LedgerRows(q, type) ==
    LET keys == {r \in BagToSet(ledger) : r.question_id = q
                                          /\ r.interaction_type = type}
    IN [r \in keys |-> ledger[r]]

\* COUNT(*) of the rows of a question and type
CountRows(q, type) == BagCardinality(LedgerRows(q, type))

InProgress(p) == pc[p] \in {"insert", "trigger", "commit"}

\* a row inserted by a transaction that has not committed yet
HasPendingRow(p) == pc[p] \in {"trigger", "commit"}

UniqueConflict_Absent(row) == FALSE

\* UNIQUE(question_id, user_id, interaction_type, created_at) against the
\* committed rows
UniqueConflict(row) ==
    \E r \in BagToSet(ledger) : SameTuple(r, row)

\* an uncommitted row of another transaction with the same key: the INSERT
\* waits for that transaction to end
UniqueWait(p, row) ==
    \E o \in Procs \ {p} : HasPendingRow(o) /\ SameTuple(call[o], row)

InsertRaises_NullOk(row) ==
    \/ row.question_id \notin Questions
    \/ row.interaction_type = NullType

InsertRaises_NoOnConflict(row) ==
    \/ row.question_id \notin Questions
    \/ row.user_id = NullUser
    \/ row.interaction_type = NullType
    \/ UniqueConflict(row)

\* what makes the INSERT raise: question_id REFERENCES questions(id),
\* user_id NOT NULL, interaction_type NOT NULL; a unique conflict does not
\* (ON CONFLICT DO NOTHING)
InsertRaises(row) ==
    \/ row.question_id \notin Questions
    \/ row.user_id = NullUser
    \/ row.interaction_type = NullType

\* RETURN TRUE, or RETURN FALSE from EXCEPTION WHEN OTHERS
record_result(raised) == IF raised THEN "FALSE" ELSE "TRUE"

RowLockFree_NoLock(q, p) == TRUE

\* the UPDATE of the trigger takes the row lock of the question and waits
\* while another transaction holds it
RowLockFree(q, p) == rowlock[q] \in {NoProc, p}

TouchesQuestion(type) == type \in {"view", "share", "favorite"}

update_question_popularity_NoShare(row, old) ==
    IF row.interaction_type = "view"
    THEN [old EXCEPT !.view_count = @ + 1, !.last_viewed_at = row.created_at]
    ELSE IF row.interaction_type = "favorite"
    THEN [old EXCEPT !.favorite_count = @ + 1]
    ELSE old

\* the trigger body: the new version of the question row
update_question_popularity(row, old) ==
    IF row.interaction_type = "view"
    THEN [old EXCEPT !.view_count = @ + 1, !.last_viewed_at = row.created_at]
    ELSE IF row.interaction_type = "share"
    THEN [old EXCEPT !.share_count = @ + 1]
    ELSE IF row.interaction_type = "favorite"
    THEN [old EXCEPT !.favorite_count = @ + 1]
    ELSE old

NumInProgress(f) == Cardinality({p \in Procs : f[p] \in {"insert", "trigger", "commit"}})

\* ---- record_question_interaction ----

Tick ==
    /\ now < MaxTime
    /\ now' = now + 1
    /\ UNCHANGED <<questions, ledger, pc, call, outcome, result, newver,
                   rowlock, ncalls, peak, trending_out>>

\* the call starts: created_at DEFAULT NOW() is the transaction timestamp
Begin(p, q, type, u) ==
    /\ pc[p] \in {"idle", "done"}
    /\ ncalls < MaxCalls
    /\ ncalls' = ncalls + 1
    /\ call' = [call EXCEPT ![p] = [question_id |-> q, user_id |-> u,
                                    interaction_type |-> type, created_at |-> now]]
    /\ pc' = [pc EXCEPT ![p] = "insert"]
    /\ outcome' = [outcome EXCEPT ![p] = "none"]
    /\ result' = [result EXCEPT ![p] = "none"]
    /\ peak' = IF NumInProgress(pc') > peak THEN NumInProgress(pc') ELSE peak
    /\ UNCHANGED <<now, questions, ledger, newver, rowlock, trending_out>>

\* the INSERT raises and the handler returns FALSE
InsertFails(p) ==
    /\ pc[p] = "insert"
    /\ InsertRaises(call[p])
    /\ outcome' = [outcome EXCEPT ![p] = "raised"]
    /\ result' = [result EXCEPT ![p] = record_result(TRUE)]
    /\ pc' = [pc EXCEPT ![p] = "done"]
    /\ UNCHANGED <<now, questions, ledger, call, newver, rowlock, ncalls,
                   peak, trending_out>>

\* the key exists: DO NOTHING, the trigger does not fire, RETURN TRUE
InsertConflict(p) ==
    /\ pc[p] = "insert"
    /\ ~InsertRaises(call[p])
    /\ ~UniqueWait(p, call[p])
    /\ UniqueConflict(call[p])
    /\ outcome' = [outcome EXCEPT ![p] = "conflict"]
    /\ result' = [result EXCEPT ![p] = record_result(FALSE)]
    /\ pc' = [pc EXCEPT ![p] = "done"]
    /\ UNCHANGED <<now, questions, ledger, call, newver, rowlock, ncalls,
                   peak, trending_out>>

\* the row goes in; AFTER INSERT FOR EACH ROW fires the trigger
InsertRow(p) ==
    /\ pc[p] = "insert"
    /\ ~InsertRaises(call[p])
    /\ ~UniqueWait(p, call[p])
    /\ ~UniqueConflict(call[p])
    /\ outcome' = [outcome EXCEPT ![p] = "inserted"]
    /\ pc' = [pc EXCEPT ![p] = "trigger"]
    /\ UNCHANGED <<now, questions, ledger, call, result, newver, rowlock,
                   ncalls, peak, trending_out>>

\* update_question_popularity: UPDATE questions ... WHERE id = NEW.question_id
\* reads the latest committed version under the row lock
Trigger(p) ==
    /\ pc[p] = "trigger"
    /\ LET q == call[p].question_id IN
       IF TouchesQuestion(call[p].interaction_type)
       THEN /\ RowLockFree(q, p)
            /\ rowlock' = [rowlock EXCEPT ![q] = p]
            /\ newver' = [newver EXCEPT ![p] =
                            update_question_popularity(call[p], questions[q])]
       ELSE UNCHANGED <<rowlock, newver>>
    /\ pc' = [pc EXCEPT ![p] = "commit"]
    /\ UNCHANGED <<now, questions, ledger, call, outcome, result, ncalls,
                   peak, trending_out>>

\* RETURN TRUE and the transaction commits
Commit(p) ==
    /\ pc[p] = "commit"
    /\ ledger' = ledger (+) SetToBag({call[p]})
    /\ LET q == call[p].question_id IN
       IF TouchesQuestion(call[p].interaction_type)
       THEN /\ questions' = [questions EXCEPT ![q] = newver[p]]
            /\ rowlock' = [rowlock EXCEPT ![q] = IF @ = p THEN NoProc ELSE @]
       ELSE UNCHANGED <<questions, rowlock>>
    /\ newver' = [newver EXCEPT ![p] = NoVersion]
    /\ result' = [result EXCEPT ![p] = record_result(FALSE)]
    /\ pc' = [pc EXCEPT ![p] = "done"]
    /\ UNCHANGED <<now, call, outcome, ncalls, peak, trending_out>>

\* ---- get_trending_questions ----

\* 86400.0 seconds make a day; the clock of the model ticks once a day
DayTicks == 1

\* the weights of the score, times ten: 2.0, 3.0 and -0.1
Wv10 == 20
Wf10 == 30
Wr10 == -1

\* the text of the interval literal of the subquery, character by character:
\* it is written '%s days' and days_window is not put into it
IntervalLiteral == <<"%", "s", " ", "d", "a", "y", "s">>

DigitChars == <<"0", "1", "2", "3", "4", "5", "6", "7", "8", "9">>

DigitValue(c) == (CHOOSE i \in 1..10 : DigitChars[i] = c) - 1

IsDigit(c) == \E i \in 1..10 : DigitChars[i] = c

RECURSIVE ToNat(_)
ToNat(ds) ==
    IF ds = <<>> THEN 0
    ELSE 10 * ToNat(SubSeq(ds, 1, Len(ds) - 1)) + DigitValue(ds[Len(ds)])

\* the input conversion of type interval, for texts made of a quantity and
\* the unit "days": punctuation is skipped, unit words carry no value, and a
\* text without any quantity is refused (invalid input syntax)
interval_in(txt) ==
    LET ds == SelectSeq(txt, IsDigit)
    IN IF ds = <<>>
       THEN [ok |-> FALSE, ticks |-> 0]
       ELSE [ok |-> TRUE, ticks |-> ToNat(ds) * DayTicks]

\* the recent_views subquery: COUNT(*) of the view rows of a question with
\* created_at >= NOW() - interval
recent_views(q, ticks) ==
    LET keys == {r \in BagToSet(ledger) : /\ r.question_id = q
                                          /\ r.interaction_type = "view"
                                          /\ r.created_at >= now - ticks}
    IN BagCardinality([r \in keys |-> ledger[r]])

\* trend_score, times ten; the age is NOW() - q.created_at in days
trend_score10(q, ticks) ==
    recent_views(q, ticks) * Wv10
    + questions[q].favorite_count * Wf10
    + ((now - questions[q].created_at) * Wr10) \div DayTicks

\* WHERE q.processing_status = 'completed'
Eligible == {q \in Questions : questions[q].processing_status = "completed"}

TrendingRow(q, ticks) ==
    [id |-> q, created_at |-> questions[q].created_at,
     view_count |-> questions[q].view_count,
     favorite_count |-> questions[q].favorite_count,
     trend_score10 |-> trend_score10(q, ticks)]

\* ORDER BY trend_score DESC, q.created_at DESC
RankedBefore(r1, r2) ==
    \/ r1.trend_score10 > r2.trend_score10
    \/ r1.trend_score10 = r2.trend_score10 /\ r1.created_at >= r2.created_at

\* every order of the rows the ORDER BY allows (rows equal in both keys come
\* in any order)
Rankings(rows) ==
    {s \in [1..Cardinality(rows) -> rows] :
        /\ \A i, j \in DOMAIN s : i # j => s[i] # s[j]
        /\ \A i, j \in DOMAIN s : i < j => RankedBefore(s[i], s[j])}

Min(a, b) == IF a < b THEN a ELSE b

\* what a call can give: an error when the interval literal is refused,
\* else the first limit_count rows of a ranking
get_trending_questions(days_window, limit_count) ==
    LET iv == interval_in(IntervalLiteral)
    IN IF ~iv.ok
       THEN {[status |-> "error", rows |-> <<>>]}
       ELSE {[status |-> "ok", rows |-> SubSeq(s, 1, Min(limit_count, Len(s)))] :
                s \in Rankings({TrendingRow(q, iv.ticks) : q \in Eligible})}

TrendingCall(days_window, limit_count) ==
    /\ trending_out' \in
         {[called |-> TRUE, days_window |-> days_window,
           limit_count |-> limit_count, status |-> o.status, rows |-> o.rows] :
              o \in get_trending_questions(days_window, limit_count)}
    /\ UNCHANGED <<now, questions, ledger, pc, call, outcome, result, newver,
                   rowlock, ncalls, peak>>

\* ---- database contents a trending call can meet ----

RECURSIVE SubsetsUpTo(_, _)
SubsetsUpTo(S, k) ==
    IF k = 0 THEN {{}}
    ELSE LET prev == SubsetsUpTo(S, k - 1)
         IN prev \cup {T \cup {x} : T \in prev, x \in S}

\* the rows record_question_interaction can have committed by time t
LedgerRowsBy(t) ==
    [question_id : Questions, user_id : Users,
     interaction_type : InteractionTypes, created_at : 0..t]

CountIn(rows, q, type) ==
    Cardinality({r \in rows : r.question_id = q /\ r.interaction_type = type})

ViewTimes(rows, q) ==
    {r.created_at : r \in {x \in rows : x.question_id = q
                                        /\ x.interaction_type = "view"}}

\* a quiescent database: at most MaxCalls ledger rows with distinct keys, the
\* counters as the trigger left them, last_viewed_at the timestamp of one of
\* the views
InitTrend ==
    /\ now \in 0..MaxTime
    /\ \E rows \in SubsetsUpTo(LedgerRowsBy(now), MaxCalls) :
         /\ ledger = SetToBag(rows)
         /\ questions \in [Questions -> [view_count : 0..MaxCalls,
                                         share_count : 0..MaxCalls,
                                         favorite_count : 0..MaxCalls,
                                         last_viewed_at : {NullTime} \cup 0..now,
                                         processing_status : ProcessingStatuses,
                                         created_at : {0}]]
         /\ \A q \in Questions :
              /\ questions[q].view_count = CountIn(rows, q, "view")
              /\ questions[q].share_count = CountIn(rows, q, "share")
              /\ questions[q].favorite_count = CountIn(rows, q, "favorite")
              /\ questions[q].last_viewed_at \in
                    (IF ViewTimes(rows, q) = {} THEN {NullTime} ELSE ViewTimes(rows, q))
    /\ pc = [p \in Procs |-> "idle"]
    /\ call = [p \in Procs |-> NoCall]
    /\ outcome = [p \in Procs |-> "none"]
    /\ result = [p \in Procs |-> "none"]
    /\ newver = [p \in Procs |-> NoVersion]
    /\ rowlock = [q \in Questions |-> NoProc]
    /\ ncalls = 0
    /\ peak = 0
    /\ trending_out = NoTrending
    /\ LibraryIdle
    /\ ClientIdle

NextTrend ==
    /\ \E w \in 1..MaxWindow, l \in 0..MaxLimit : TrendingCall(w, l)
    /\ UNCHANGED <<libvars, clientvars>>

SpecTrend == InitTrend /\ [][NextTrend]_vars

RecordNext ==
    \/ Tick
    \/ \E p \in Procs, q \in Questions \cup {MissingQuestion},
          type \in InteractionTypes \cup {NullType}, u \in Users \cup {NullUser} :
          Begin(p, q, type, u)
    \/ \E p \in Procs : InsertFails(p)
    \/ \E p \in Procs : InsertConflict(p)
    \/ \E p \in Procs : InsertRow(p)
    \/ \E p \in Procs : Trigger(p)
    \/ \E p \in Procs : Commit(p)

Next == RecordNext /\ UNCHANGED <<libvars, clientvars>>

Spec == Init /\ [][Next]_vars

\* ---- the ledger and its counters ----

Quiescent == \A p \in Procs : ~InProgress(p)

Done(p) == pc[p] = "done"

CounterTypes == {"view", "share", "favorite"}

Counter(q, type) ==
    IF type = "view" THEN questions[q].view_count
    ELSE IF type = "share" THEN questions[q].share_count
    ELSE questions[q].favorite_count

\* the distinct (item, actor, type, timestamp) tuples of an item and type
DistinctTuples(q, type) ==
    {r \in BagToSet(ledger) : r.question_id = q /\ r.interaction_type = type}

\* C1: a tuple (item, actor, type, timestamp) recorded more than once is kept
\* as one ledger row, and once no call is running each counter equals the
\* number of distinct tuples of its item and type: the repeat added nothing.
C1_DuplicateStoredAndCountedOnce ==
    /\ \A r \in BagToSet(ledger) : CopiesIn(r, ledger) = 1
    /\ Quiescent =>
         \A q \in Questions, type \in CounterTypes :
            Counter(q, type) = Cardinality(DistinctTuples(q, type))

\* a view recorded twice with the same tuple, counted once
C1_Witness ==
    /\ Quiescent
    /\ \E p \in Procs :
         /\ Done(p)
         /\ outcome[p] = "conflict"
         /\ call[p].interaction_type = "view"
         /\ CopiesIn(call[p], ledger) = 1
         /\ questions[call[p].question_id].view_count = 1

\* the calls made so far are one completed view call per session in D, all
\* on item q, by pairwise distinct actors
DistinctViewers(D, q) ==
    /\ D # {}
    /\ ncalls = Cardinality(D)
    /\ \A p \in Procs \ D : pc[p] = "idle"
    /\ \A p \in D :
         /\ Done(p)
         /\ call[p].question_id = q
         /\ call[p].interaction_type = "view"
         /\ call[p].user_id \in Users
    /\ \A p1, p2 \in D : p1 # p2 => call[p1].user_id # call[p2].user_id

\* C2: after N view calls on one item by N distinct actors, however their
\* steps interleaved, the item's view_count is N.
C2_NoLostViewUpdate ==
    \A q \in Questions, D \in SUBSET Procs :
        DistinctViewers(D, q) => questions[q].view_count = Cardinality(D)

\* every session made its call while the others were still running theirs
C2_Witness ==
    /\ peak = NProcs
    /\ \E q \in Questions :
         /\ DistinctViewers(Procs, q)
         /\ questions[q].view_count = NProcs

\* C3: while no call is in progress, view_count, share_count and
\* favorite_count of every item equal the number of its ledger rows of type
\* view, share and favorite.
C3_CountersProjectLedger ==
    Quiescent =>
        \A q \in Questions, type \in CounterTypes :
            Counter(q, type) = CountRows(q, type)

C3_Witness ==
    /\ Quiescent
    /\ \E q \in Questions :
         /\ questions[q].share_count = 1
         /\ CountRows(q, "share") = 1
         /\ questions[q].view_count + questions[q].favorite_count = 1

\* C4 (as claimed): last_viewed_at of an item never decreases.
C4_LastViewedMonotonic ==
    [][\A q \in Questions :
          questions'[q].last_viewed_at >= questions[q].last_viewed_at]_vars

\* C5 (as claimed): a call that found its tuple in the ledger returns
\* something else than a call that recorded its tuple.
C5_DuplicateDistinguishable ==
    \A p1, p2 \in Procs :
        (Done(p1) /\ Done(p2) /\ outcome[p1] = "conflict" /\ outcome[p2] = "inserted")
            => result[p1] # result[p2]

ValidArgs(c) ==
    /\ c.question_id \in Questions
    /\ c.user_id \in Users
    /\ c.interaction_type # NullType

\* C5 (amended): of two completed calls with the same tuple, on an existing
\* item and with an actor, both return TRUE, the value of a first recording,
\* and the ledger holds the tuple once.
C5_DuplicateReturnsTrue ==
    \A p1, p2 \in Procs :
        (p1 # p2 /\ Done(p1) /\ Done(p2) /\ ValidArgs(call[p1])
         /\ SameTuple(call[p1], call[p2]))
            => /\ result[p1] = "TRUE"
               /\ result[p2] = "TRUE"
               /\ CopiesIn(call[p1], ledger) = 1

C5_Witness ==
    \E p1, p2 \in Procs :
        /\ Done(p1) /\ Done(p2)
        /\ outcome[p1] = "inserted" /\ outcome[p2] = "conflict"
        /\ SameTuple(call[p1], call[p2])
        /\ result[p1] = "TRUE" /\ result[p2] = "TRUE"

\* C6 (as claimed): every completed call reports recorded or duplicate, that
\* is, never a failure.
C6_NeverReportsFailure ==
    \A p \in Procs : Done(p) => result[p] = "TRUE"

\* C6 (amended): a completed call returned TRUE or FALSE; it returned FALSE
\* exactly when the INSERT raised, that is when the item id is unknown or
\* the actor id or the type is missing, and then the ledger holds no row of
\* the call; a call that returned TRUE has its row in the ledger.
C6_FailsOnlyOnBadArgs ==
    \A p \in Procs :
        Done(p) =>
            /\ result[p] \in {"TRUE", "FALSE"}
            /\ result[p] = "FALSE" <=> ~ValidArgs(call[p])
            /\ result[p] = "FALSE" => ~BagIn(call[p], ledger)
            /\ result[p] = "TRUE" => BagIn(call[p], ledger)

C6_Witness ==
    \E p1, p2 \in Procs :
        /\ Done(p1) /\ result[p1] = "FALSE" /\ call[p1].user_id = NullUser
        /\ Done(p2) /\ result[p2] = "FALSE" /\ call[p2].question_id = MissingQuestion
                    /\ call[p2].user_id \in Users

\* C7 (as claimed): of the events of one actor on one item and type whose
\* timestamps are consecutive clock readings, the closest two distinct
\* timestamps can be, only one is kept.
C7_CloseRepeatsSuppressed ==
    \A r1, r2 \in BagToSet(ledger) :
        (/\ r1.question_id = r2.question_id
         /\ r1.user_id = r2.user_id
         /\ r1.interaction_type = r2.interaction_type
         /\ r1.created_at - r2.created_at \in {0, 1})
            => r1 = r2

\* ---- trending ----

\* the views of an item within the last w days
WindowViews(q, w) ==
    LET keys == {r \in BagToSet(ledger) : /\ r.question_id = q
                                          /\ r.interaction_type = "view"
                                          /\ r.created_at >= now - w * DayTicks}
    IN BagCardinality([r \in keys |-> ledger[r]])

AgeDays(q) == (now - questions[q].created_at) \div DayTicks

\* the call had room for every eligible item
ListsAllEligible ==
    trending_out.called /\ Cardinality(Eligible) <= trending_out.limit_count

ReturnedRows == {trending_out.rows[i] : i \in DOMAIN trending_out.rows}

\* C8 (as claimed): trending returns every eligible item with the score
\* recentViews x 2.0 + favorite_count x 3.0 + ageInDays x (-0.1).
C8_TrendScoreFormula ==
    ListsAllEligible =>
        \A q \in Eligible :
            \E r \in ReturnedRows :
                /\ r.id = q
                /\ r.trend_score10 = WindowViews(q, trending_out.days_window) * 20
                                     + questions[q].favorite_count * 30
                                     - AgeDays(q)

\* the recent-views term of a returned score
RecentTerm(r) ==
    (r.trend_score10 - r.favorite_count * Wf10 - AgeDays(r.id) * Wr10) \div Wv10

\* C9 (as claimed): the recent-views term of every returned item is the
\* number of its view events of the last days_window days.
C9_RecentViewsWithinWindow ==
    ListsAllEligible =>
        \A q \in Eligible :
            \E r \in ReturnedRows :
                r.id = q /\ RecentTerm(r) = WindowViews(q, trending_out.days_window)

ClaimedScore10(q) ==
    WindowViews(q, trending_out.days_window) * Wv10
    + questions[q].favorite_count * Wf10 + AgeDays(q) * Wr10

\* C10 (as claimed): a call returns a list of at most limit_count completed
\* items, by descending score and then latest creation first, and no
\* eligible item left out scores higher than a listed one.
C10_TrendingRanked ==
    trending_out.called =>
        LET rows == trending_out.rows IN
        /\ trending_out.status = "ok"
        /\ Len(rows) <= trending_out.limit_count
        /\ \A i \in DOMAIN rows : rows[i].id \in Eligible
        /\ \A i, j \in DOMAIN rows : i < j => RankedBefore(rows[i], rows[j])
        /\ \A q \in Eligible, i \in DOMAIN rows :
              (\A j \in DOMAIN rows : rows[j].id # q)
                  => ClaimedScore10(q) <= rows[i].trend_score10

\* ---- topic_stats and get_topic_probability_stats (src/unnamed/part_017) ----

\* years after the current one that a question can carry
FutureYears == 1
\* largest years_back asked for
MaxYearsBack == 10

\* EXTRACT(YEAR FROM NOW()); years are counted from year 0 of the library
CurrentYear == 10
\* probability_category: >= 0.7 'High', >= 0.3 'Medium', in tenths
HighTenths == 7
MediumTenths == 3

Years == 0..(CurrentYear + FutureYears)
Subjects == {"Pure Mathematics", "Physics"}
Topics == {"Differentiation", "Integration"}
Modules == {"Module 1", "Module 2"}

\* the ledger side at rest, with no question viewed yet
PopularityIdle ==
    /\ now = 0
    /\ questions = [q \in Questions |-> NewQuestion("completed", 0)]
    /\ ledger = EmptyBag
    /\ pc = [p \in Procs |-> "idle"]
    /\ call = [p \in Procs |-> NoCall]
    /\ outcome = [p \in Procs |-> "none"]
    /\ result = [p \in Procs |-> "none"]
    /\ newver = [p \in Procs |-> NoVersion]
    /\ rowlock = [q \in Questions |-> NoProc]
    /\ ncalls = 0
    /\ peak = 0
    /\ trending_out = NoTrending

\* one row of topic_stats: the GROUP BY columns and the counts
StatsRow(subject, module, topic_title, year, ct, papers, heavy) ==
    [subject |-> subject, module |-> module, topic_title |-> topic_title,
     year |-> year, occurrence_ct |-> ct, papers_appeared |-> papers,
     math_heavy_count |-> heavy]

GREATEST(a, b) == IF a > b THEN a ELSE b

\* SUM(occurrence_ct) over a set of view rows
RECURSIVE SumOccurrence(_)
SumOccurrence(rows) ==
    IF rows = {} THEN 0
    ELSE LET r == CHOOSE x \in rows : TRUE
         IN r.occurrence_ct + SumOccurrence(rows \ {r})

\* probability_score as the fraction num/den:
\* CASE WHEN COUNT(DISTINCT year) > 0 THEN recent::float / GREATEST(years_back, 1)
\* ELSE 0.0 END
probability_score(years_ct, recent_ct, years_back) ==
    IF years_ct > 0
    THEN [num |-> recent_ct, den |-> GREATEST(years_back, 1)]
    ELSE [num |-> 0, den |-> 1]

\* the category with the two comparisons strict
probability_category_Strict(recent_ct, years_back) ==
    IF recent_ct * 10 > HighTenths * GREATEST(years_back, 1) THEN "High"
    ELSE IF recent_ct * 10 > MediumTenths * GREATEST(years_back, 1) THEN "Medium"
    ELSE "Low"

\* probability_category: recent::float / GREATEST(years_back, 1) >= 0.7 'High',
\* >= 0.3 'Medium', ELSE 'Low'
probability_category(recent_ct, years_back) ==
    IF recent_ct * 10 >= HighTenths * GREATEST(years_back, 1) THEN "High"
    ELSE IF recent_ct * 10 >= MediumTenths * GREATEST(years_back, 1) THEN "Medium"
    ELSE "Low"

\* the SELECT of the function over the rows stats: one row per group of
\* GROUP BY ts.topic_title, hence none when no row passes the WHERE
topic_probability(stats, topic_name, subject_name, years_back) ==
    LET min_year == CurrentYear - years_back
        ts == {r \in stats : r.topic_title = topic_name
                             /\ r.subject = subject_name}
        group(t) == {r \in ts : r.topic_title = t}
        years(t) == {r.year : r \in group(t)}
        recent(t) == {y \in years(t) : y >= min_year}
    IN {[topic_title |-> t,
         total_appearances |-> SumOccurrence(group(t)),
         years_appeared |-> Cardinality(years(t)),
         recent_appearances |->
             SumOccurrence({r \in group(t) : r.year >= min_year}),
         probability_score |->
             probability_score(Cardinality(years(t)), Cardinality(recent(t)),
                               years_back),
         probability_category |->
             probability_category(Cardinality(recent(t)), years_back)] :
            t \in {r.topic_title : r \in ts}}

\* RETURN QUERY SELECT ... FROM topic_stats ts
get_topic_probability_stats(topic_name, subject_name, years_back) ==
    topic_probability(topic_stats, topic_name, subject_name, years_back)

ProbabilityCall(topic_name, subject_name, years_back) ==
    /\ prob_out' = [called |-> TRUE, topic_name |-> topic_name,
                    subject_name |-> subject_name, years_back |-> years_back,
                    rows |-> get_topic_probability_stats(topic_name, subject_name,
                                                         years_back),
                    path |-> "function",
                    met_pc |-> refresh.pc, met_result |-> refresh.result]
    /\ UNCHANGED <<topic_stats, refresh, versions, search_req, search_out,
                   insert_out>>
    /\ UNCHANGED tables
    /\ UNCHANGED <<popvars, clientvars>>

\* view contents a call can meet: Differentiation of Pure Mathematics seen in
\* the years Y (in even years under a second module as well), one row of
\* Physics and one of another topic beside them
StatsForYears(Y) ==
    {StatsRow("Pure Mathematics", "Module 1", "Differentiation", y, 1, 1, 0) :
        y \in Y}
    \cup {StatsRow("Pure Mathematics", "Module 2", "Differentiation", y, 2, 1, 1) :
            y \in {x \in Y : x % 2 = 0}}
    \cup {StatsRow("Physics", "Module 1", "Differentiation", CurrentYear, 1, 1, 0),
          StatsRow("Pure Mathematics", "Module 1", "Integration", CurrentYear, 1, 1, 0)}

\* the tables behind the view and the calls on them are not looked at here
InitProb ==
    /\ PopularityIdle
    /\ ClientIdle
    /\ topic_stats \in {StatsForYears(Y) : Y \in SUBSET Years}
    /\ prob_out = NoProbability
    /\ question_chunks = {}
    /\ syllabus_chunks = {}
    /\ question_topic_mappings = {}
    /\ refresh = [NoRefresh EXCEPT !.before = topic_stats]
    /\ versions = {topic_stats}
    /\ search_req = NoRequest
    /\ search_out = NoSearch
    /\ insert_out = NoInsert

\* the windows asked for: negative, empty, short, and the default of ten years
YearsBackValues == {-1, 0, 1, 2, MaxYearsBack}

NextProb ==
    \E t \in Topics, s \in Subjects, yb \in YearsBackValues :
        ProbabilityCall(t, s, yb)

SpecProb == InitProb /\ [][NextProb]_vars

\* the view rows of the topic and subject the last call asked for
AskedRows ==
    {r \in topic_stats : r.topic_title = prob_out.topic_name
                         /\ r.subject = prob_out.subject_name}

\* the years of the window [currentYear - yearsBack, currentYear] that have a row
WindowYears ==
    {r.year : r \in {x \in AskedRows :
                        /\ CurrentYear - prob_out.years_back <= x.year
                        /\ x.year <= CurrentYear}}

\* C11: the probability score of a topic that has aggregate rows is the number
\* of distinct years of the window [currentYear - yearsBack, currentYear] with
\* a row, divided by max(yearsBack, 1); years after currentYear do not count.
C11_ScoreCountsWindowYears ==
    (prob_out.called /\ AskedRows # {}) =>
        /\ prob_out.rows # {}
        /\ \A r \in prob_out.rows :
              r.probability_score.num * GREATEST(prob_out.years_back, 1)
                 = Cardinality(WindowYears) * r.probability_score.den

\* C12: the category of a returned row is a function of its score alone:
\* High iff score >= 0.7, Medium iff 0.3 <= score < 0.7, Low iff score < 0.3.
C12_CategoryFromScore ==
    prob_out.called =>
        \A r \in prob_out.rows :
            LET n == r.probability_score.num * 10
                d == r.probability_score.den
            IN /\ r.probability_category = "High" <=> n >= HighTenths * d
               /\ r.probability_category = "Medium"
                     <=> (n >= MediumTenths * d /\ n < HighTenths * d)
               /\ r.probability_category = "Low" <=> n < MediumTenths * d

\* a call that returned a score of exactly 0.7, in category High
C12_Witness ==
    /\ prob_out.called
    /\ \E r \in prob_out.rows :
          /\ r.probability_score.num * 10 = HighTenths * r.probability_score.den
          /\ r.probability_category = "High"

\* C13: for a topic with no aggregate row in any year the call returns one
\* record with score 0 and category Low, not an empty result.
C13_NoRowsGivesZeroLow ==
    (prob_out.called /\ AskedRows = {}) =>
        /\ Cardinality(prob_out.rows) = 1
        /\ \A r \in prob_out.rows : /\ r.probability_score.num = 0
                                    /\ r.probability_category = "Low"

\* ---- vector search: match_question_chunks, match_syllabus_sections, ----
\* ---- hybrid_search (src/unnamed/part_017)                           ----

\* rows of question_chunks a search can meet
MaxChunks == 2
\* rows of syllabus_chunks a search can meet
MaxSections == 1
\* largest match_count asked for
MaxCount == 3

\* VECTOR(384): the number of components of an embedding, scaled down
Dim == 2
\* question_chunks.year is NULL
NullYear == -1

Components == {0, 1}
Vectors(n) == [1..n -> Components]
Embeddings == Vectors(Dim)

\* match_threshold in tenths: 0.0, the default 0.7 of hybrid_search, 1.0
ThresholdTenths == {0, 7, 10}

QuestionChunk(id, subject, embedding, year, paper, heavy) ==
    [id |-> id, subject |-> subject, embedding |-> embedding, year |-> year,
     paper |-> paper, is_math_heavy |-> heavy]

SyllabusChunk(id, subject, module, topic_title, embedding) ==
    [id |-> id, subject |-> subject, module |-> module,
     topic_title |-> topic_title, embedding |-> embedding]

RECURSIVE DotUpTo(_, _, _)
DotUpTo(a, b, n) == IF n = 0 THEN 0 ELSE a[n] * b[n] + DotUpTo(a, b, n - 1)

Dot(a, b) == DotUpTo(a, b, Len(a))

\* 1 - (a <=> b), the cosine of the angle between a and b, kept as
\* dot / sqrt(norm2); it is NaN when a or b is the zero vector (norm2 = 0)
Similarity(a, b) == [dot |-> Dot(a, b), norm2 |-> Dot(a, a) * Dot(b, b)]

IsNaN(sim) == sim.norm2 = 0

\* sim > th/10, for a similarity that is a number
CosAbove(sim, th) ==
    IF th >= 0
    THEN sim.dot > 0 /\ 100 * sim.dot * sim.dot > th * th * sim.norm2
    ELSE sim.dot >= 0 \/ 100 * sim.dot * sim.dot < th * th * sim.norm2

\* the filter with the comparison not strict: distance <= 1 - match_threshold
DistanceBelow_OrEqual(sim, th) ==
    /\ ~IsNaN(sim)
    /\ \/ CosAbove(sim, th)
       \/ /\ 100 * sim.dot * sim.dot = th * th * sim.norm2
          /\ (th >= 0 <=> sim.dot >= 0)

\* (embedding <=> query_embedding) < (1 - match_threshold); a NaN distance
\* compares greater than every number
DistanceBelow(sim, th) == ~IsNaN(sim) /\ CosAbove(sim, th)

\* the order turned round: s1 has the larger distance
Nearer_Reversed(s1, s2) ==
    IF s1.dot >= 0 /\ s2.dot >= 0
    THEN s1.dot * s1.dot * s2.norm2 < s2.dot * s2.dot * s1.norm2
    ELSE IF s1.dot >= 0 THEN FALSE
    ELSE IF s2.dot >= 0 THEN TRUE
    ELSE s1.dot * s1.dot * s2.norm2 > s2.dot * s2.dot * s1.norm2

\* s1 has the smaller distance: dot1/sqrt(norm1) > dot2/sqrt(norm2)
Nearer(s1, s2) ==
    IF s1.dot >= 0 /\ s2.dot >= 0
    THEN s1.dot * s1.dot * s2.norm2 > s2.dot * s2.dot * s1.norm2
    ELSE IF s1.dot >= 0 THEN TRUE
    ELSE IF s2.dot >= 0 THEN FALSE
    ELSE s1.dot * s1.dot * s2.norm2 < s2.dot * s2.dot * s1.norm2

\* ORDER BY distance (the same as ORDER BY similarity DESC): every order of
\* the rows that puts no row before a nearer one; rows at the same distance
\* come in any order
DistanceOrders(rows) ==
    {s \in [1..Cardinality(rows) -> rows] :
        /\ \A i, j \in DOMAIN s : i # j => s[i] # s[j]
        /\ \A i, j \in DOMAIN s : i < j => ~Nearer(s[j].similarity, s[i].similarity)}

MatchRow(r, query_embedding, source_table) ==
    [id |-> r.id, subject |-> r.subject, source_table |-> source_table,
     similarity |-> Similarity(r.embedding, query_embedding)]

\* SELECT ... WHERE subject = query_subject AND distance < 1 - match_threshold
\* ORDER BY distance LIMIT match_count, over one of the two chunk tables
match_chunks(chunks, source_table, query_embedding, query_subject, match_threshold, match_count) ==
    LET hits == {MatchRow(r, query_embedding, source_table) :
                    r \in {x \in chunks :
                             /\ x.subject = query_subject
                             /\ DistanceBelow(Similarity(x.embedding, query_embedding),
                                              match_threshold)}}
    IN {SubSeq(s, 1, Min(match_count, Len(s))) : s \in DistanceOrders(hits)}

match_question_chunks(query_embedding, query_subject, match_threshold, match_count) ==
    match_chunks(question_chunks, "question_chunks", query_embedding,
                 query_subject, match_threshold, match_count)

match_syllabus_sections(query_embedding, query_subject, match_threshold, match_count) ==
    match_chunks(syllabus_chunks, "syllabus_chunks", query_embedding,
                 query_subject, match_threshold, match_count)

\* the whole match_count for each table, whatever else is searched
TableLimit_Whole(match_count, other_searched) == match_count

\* LIMIT CASE WHEN <the other table is searched> THEN match_count / 2
\* ELSE match_count END (integer division)
TableLimit(match_count, other_searched) ==
    IF other_searched THEN match_count \div 2 ELSE match_count

Range(s) == {s[i] : i \in DOMAIN s}

\* the two sub-selects, UNION ALL, ORDER BY similarity DESC
hybrid_search(query_embedding, query_subject, match_threshold, match_count, search_questions, search_syllabus) ==
    LET qs == IF search_questions
              THEN match_chunks(question_chunks, "question_chunks",
                                query_embedding, query_subject, match_threshold,
                                TableLimit(match_count, search_syllabus))
              ELSE {<<>>}
        ss == IF search_syllabus
              THEN match_chunks(syllabus_chunks, "syllabus_chunks",
                                query_embedding, query_subject, match_threshold,
                                TableLimit(match_count, search_questions))
              ELSE {<<>>}
    IN UNION {DistanceOrders(Range(a) \cup Range(b)) : a \in qs, b \in ss}

SearchRequest(fn, q, s, th, k, sq, ss) ==
    [fn |-> fn, query_embedding |-> q, query_subject |-> s,
     match_threshold |-> th, match_count |-> k,
     search_questions |-> sq, search_syllabus |-> ss]

SearchUnchanged ==
    /\ UNCHANGED <<search_req, topic_stats, refresh, versions, prob_out, insert_out>>
    /\ UNCHANGED tables
    /\ UNCHANGED <<popvars, clientvars>>

MatchQuestionChunks ==
    /\ search_req.fn = "match_question_chunks"
    /\ ~search_out.called
    /\ search_out' \in
         {[called |-> TRUE, rows |-> rows] :
             rows \in match_question_chunks(search_req.query_embedding,
                                            search_req.query_subject,
                                            search_req.match_threshold,
                                            search_req.match_count)}
    /\ SearchUnchanged

MatchSyllabusSections ==
    /\ search_req.fn = "match_syllabus_sections"
    /\ ~search_out.called
    /\ search_out' \in
         {[called |-> TRUE, rows |-> rows] :
             rows \in match_syllabus_sections(search_req.query_embedding,
                                              search_req.query_subject,
                                              search_req.match_threshold,
                                              search_req.match_count)}
    /\ SearchUnchanged

HybridSearch ==
    /\ search_req.fn = "hybrid_search"
    /\ ~search_out.called
    /\ search_out' \in
         {[called |-> TRUE, rows |-> rows] :
             rows \in hybrid_search(search_req.query_embedding,
                                    search_req.query_subject,
                                    search_req.match_threshold,
                                    search_req.match_count,
                                    search_req.search_questions,
                                    search_req.search_syllabus)}
    /\ SearchUnchanged

\* table contents a search can meet: ids as the SERIAL column gives them, any
\* subject, any embedding of the column's dimension
QuestionStores ==
    UNION {{{QuestionChunk(i, f[i][1], f[i][2], NullYear, "Paper 1", FALSE) :
                i \in 1..n} : f \in [1..n -> Subjects \X Embeddings]} :
           n \in 0..MaxChunks}

SectionStores ==
    UNION {{{SyllabusChunk(i, f[i][1], "Module 1", "Differentiation", f[i][2]) :
                i \in 1..n} : f \in [1..n -> Subjects \X Embeddings]} :
           n \in 0..MaxSections}

SearchRequests ==
    {SearchRequest(fn, q, s, th, k, TRUE, TRUE) :
        fn \in {"match_question_chunks", "match_syllabus_sections"},
        q \in Embeddings, s \in Subjects, th \in ThresholdTenths,
        k \in 0..MaxCount}
    \cup {SearchRequest("hybrid_search", q, s, th, k, sq, ss) :
            q \in Embeddings, s \in Subjects, th \in ThresholdTenths,
            k \in 0..MaxCount, sq \in BOOLEAN, ss \in BOOLEAN}

InitSearch ==
    /\ PopularityIdle
    /\ ClientIdle
    /\ question_chunks \in QuestionStores
    /\ syllabus_chunks \in SectionStores
    /\ question_topic_mappings = {}
    /\ topic_stats = {}
    /\ refresh = NoRefresh
    /\ versions = {{}}
    /\ prob_out = NoProbability
    /\ search_req \in SearchRequests
    /\ search_out = NoSearch
    /\ insert_out = NoInsert

NextSearch ==
    \/ MatchQuestionChunks
    \/ MatchSyllabusSections
    \/ HybridSearch

SpecSearch == InitSearch /\ [][NextSearch]_vars

\* the table a match call searched
SearchedTable ==
    IF search_req.fn = "match_question_chunks" THEN question_chunks
    ELSE syllabus_chunks

IsMatchCall ==
    /\ search_out.called
    /\ search_req.fn \in {"match_question_chunks", "match_syllabus_sections"}

\* sim >= th/10 for a threshold in [0, 1]
SimilarityAtLeast(sim, th) ==
    /\ ~IsNaN(sim)
    /\ sim.dot >= 0
    /\ 100 * sim.dot * sim.dot >= th * th * sim.norm2

\* sim = th/10 for a threshold in [0, 1]
SimilarityEquals(sim, th) ==
    /\ ~IsNaN(sim)
    /\ sim.dot >= 0
    /\ 100 * sim.dot * sim.dot = th * th * sim.norm2

SimilarityOf(r) == Similarity(r.embedding, search_req.query_embedding)

ReturnedIds == {search_out.rows[i].id : i \in DOMAIN search_out.rows}

\* the rows are the (up to match_count) most similar of the eligible chunks
TopOf(eligible) ==
    /\ Len(search_out.rows) = Min(search_req.match_count, Cardinality(eligible))
    /\ ReturnedIds \subseteq {r.id : r \in eligible}
    /\ Cardinality(ReturnedIds) = Len(search_out.rows)
    /\ \A i \in DOMAIN search_out.rows :
          \E r \in eligible : /\ r.id = search_out.rows[i].id
                              /\ SimilarityOf(r) = search_out.rows[i].similarity
    /\ \A e \in eligible :
          e.id \notin ReturnedIds =>
             \A i \in DOMAIN search_out.rows :
                 ~Nearer(SimilarityOf(e), search_out.rows[i].similarity)

ExactMatches ==
    {r \in SearchedTable : /\ r.subject = search_req.query_subject
                           /\ r.embedding = search_req.query_embedding}

IsOne(sim) == ~IsNaN(sim) /\ sim.dot > 0 /\ sim.dot * sim.dot = sim.norm2

IsHybridCall == search_out.called /\ search_req.fn = "hybrid_search"

\* C16: hybrid_search with both tables searched returns at most match_count
\* rows, for even and odd match_count; every row has similarity >= the
\* threshold (there is no lexical fallback), and rows come only from the
\* tables that were asked for.
C16_HybridWithinLimit ==
    IsHybridCall =>
        /\ (search_req.search_questions /\ search_req.search_syllabus) =>
               Len(search_out.rows) <= search_req.match_count
        /\ \A i \in DOMAIN search_out.rows :
              LET r == search_out.rows[i]
              IN /\ SimilarityAtLeast(r.similarity, search_req.match_threshold)
                 /\ r.source_table = "question_chunks" => search_req.search_questions
                 /\ r.source_table = "syllabus_chunks" => search_req.search_syllabus
                 /\ r.subject = search_req.query_subject

\* a hybrid call over both tables with an odd match_count that returned rows
\* of both tables
C16_Witness ==
    /\ IsHybridCall
    /\ search_req.search_questions /\ search_req.search_syllabus
    /\ search_req.match_count % 2 = 1
    /\ \E i, j \in DOMAIN search_out.rows :
          /\ search_out.rows[i].source_table = "question_chunks"
          /\ search_out.rows[j].source_table = "syllabus_chunks"

\* ---- ingestion: INSERT into the chunk tables and the mapping table ----
\* ---- (src/unnamed/part_017)                                        ----

\* the dimension of the column left unchecked
DimensionError_Unchecked(embedding) == FALSE

\* embedding VECTOR(384) NOT NULL: a vector of another length is refused by
\* the column type ("expected 384 dimensions, not n")
DimensionError(embedding) == Len(embedding) # Dim

\* id SERIAL; no row is deleted here
NextId(rows) == Cardinality(rows) + 1

InsertResult(status, table, embedding) ==
    [status |-> status, table |-> table, embedding |-> embedding,
     question_id |-> 0, topic_id |-> 0]

\* INSERT INTO question_chunks (subject, embedding, year, paper, is_math_heavy)
InsertQuestionChunk(subject, embedding, year, paper, heavy) ==
    /\ DimensionError(embedding) \/ Cardinality(question_chunks) < MaxChunks
    /\ IF DimensionError(embedding)
       THEN /\ insert_out' = InsertResult("dimension_error", "question_chunks",
                                          embedding)
            /\ UNCHANGED question_chunks
       ELSE /\ question_chunks' = question_chunks \cup
                   {QuestionChunk(NextId(question_chunks), subject, embedding,
                                  year, paper, heavy)}
            /\ insert_out' = InsertResult("ok", "question_chunks", embedding)
    /\ UNCHANGED <<syllabus_chunks, question_topic_mappings, topic_stats,
                   refresh, versions, prob_out, search_req, search_out>>
    /\ UNCHANGED <<popvars, clientvars>>

\* INSERT INTO syllabus_chunks (subject, module, topic_title, embedding)
InsertSyllabusChunk(subject, module, topic_title, embedding) ==
    /\ DimensionError(embedding) \/ Cardinality(syllabus_chunks) < MaxSections
    /\ IF DimensionError(embedding)
       THEN /\ insert_out' = InsertResult("dimension_error", "syllabus_chunks",
                                          embedding)
            /\ UNCHANGED syllabus_chunks
       ELSE /\ syllabus_chunks' = syllabus_chunks \cup
                   {SyllabusChunk(NextId(syllabus_chunks), subject, module,
                                  topic_title, embedding)}
            /\ insert_out' = InsertResult("ok", "syllabus_chunks", embedding)
    /\ UNCHANGED <<question_chunks, question_topic_mappings, topic_stats,
                   refresh, versions, prob_out, search_req, search_out>>
    /\ UNCHANGED <<popvars, clientvars>>

\* confidence_score FLOAT DEFAULT 1.0, in tenths
DefaultConfidence == 10

MappingWith(question_id, topic_id, confidence_score, mapping_type) ==
    [question_id |-> question_id, topic_id |-> topic_id,
     confidence_score |-> confidence_score, mapping_type |-> mapping_type]

Mapping(question_id, topic_id, mapping_type) ==
    MappingWith(question_id, topic_id, DefaultConfidence, mapping_type)

MappingResult(status, question_id, topic_id) ==
    [status |-> status, table |-> "question_topic_mappings",
     embedding |-> <<>>, question_id |-> question_id, topic_id |-> topic_id]

\* the table without its UNIQUE constraint
MappingExists_NoUnique(question_id, topic_id) == FALSE

\* UNIQUE (question_id, topic_id): a row with this pair is there
MappingExists(question_id, topic_id) ==
    \E m \in question_topic_mappings :
        m.question_id = question_id /\ m.topic_id = topic_id

\* INSERT INTO question_topic_mappings (question_id, topic_id,
\* confidence_score, mapping_type): both REFERENCES must exist and
\* UNIQUE (question_id, topic_id) must hold
InsertMapping(question_id, topic_id, confidence_score, mapping_type) ==
    /\ IF \/ question_id \notin {q.id : q \in question_chunks}
          \/ topic_id \notin {t.id : t \in syllabus_chunks}
       THEN /\ insert_out' = MappingResult("foreign_key_error", question_id,
                                           topic_id)
            /\ UNCHANGED question_topic_mappings
       ELSE IF MappingExists(question_id, topic_id)
       THEN /\ insert_out' = MappingResult("unique_error", question_id, topic_id)
            /\ UNCHANGED question_topic_mappings
       ELSE /\ question_topic_mappings' = question_topic_mappings \cup
                   {MappingWith(question_id, topic_id, confidence_score,
                                mapping_type)}
            /\ insert_out' = MappingResult("ok", question_id, topic_id)
    /\ UNCHANGED <<question_chunks, syllabus_chunks, topic_stats, refresh,
                   versions, prob_out, search_req, search_out>>
    /\ UNCHANGED <<popvars, clientvars>>

\* embeddings as a caller can send them: of the right length, one shorter,
\* one longer
SentEmbeddings == Vectors(Dim - 1) \cup Vectors(Dim) \cup Vectors(Dim + 1)

InitIngest == PopularityIdle /\ LibraryIdle /\ ClientIdle

NextIngest ==
    \/ \E s \in Subjects, e \in SentEmbeddings :
          InsertQuestionChunk(s, e, CurrentYear, "Paper 1", FALSE)
    \/ \E s \in Subjects, e \in SentEmbeddings :
          InsertSyllabusChunk(s, "Module 1", "Differentiation", e)
    \/ \E q \in 1..MaxChunks, t \in 1..MaxSections,
          m \in {<<DefaultConfidence, "semantic">>, <<MediumTenths, "manual">>} :
          InsertMapping(q, t, m[1], m[2])

SpecIngest == InitIngest /\ [][NextIngest]_vars

StoredEmbeddings ==
    {r.embedding : r \in question_chunks} \cup {r.embedding : r \in syllabus_chunks}

\* C20: an INSERT of a chunk whose embedding has not the dimension of the
\* column fails with a dimension error and leaves the tables as they were;
\* an embedding that is stored is the one that was sent, of that dimension.
C20_WrongDimensionRejected ==
    [][/\ (/\ insert_out'.table \in {"question_chunks", "syllabus_chunks"}
           /\ Len(insert_out'.embedding) # Dim)
          => /\ insert_out'.status = "dimension_error"
             /\ UNCHANGED tables
       /\ \A r \in (question_chunks' \ question_chunks)
                      \cup (syllabus_chunks' \ syllabus_chunks) :
             /\ r.embedding = insert_out'.embedding
             /\ Len(r.embedding) = Dim]_vars

\* an INSERT with a wrong dimension was refused while chunks were stored
C20_Witness ==
    /\ insert_out.status = "dimension_error"
    /\ Len(insert_out.embedding) # Dim
    /\ question_chunks # {}
    /\ \A e \in StoredEmbeddings : Len(e) = Dim

\* ---- the view query and refresh_topic_stats (src/unnamed/part_017) ----

\* the SELECT of the materialized view over given table contents
\* (avg_confidence and last_updated are left out)
topic_stats_query(qc, qtm, sc) ==
    LET joined == {j \in qc \X qtm \X sc :
                      /\ j[1].id = j[2].question_id
                      /\ j[2].topic_id = j[3].id
                      /\ j[1].year # NullYear}
        key(j) == <<j[1].subject, j[3].module, j[3].topic_title, j[1].year>>
        group(k) == {j \in joined : key(j) = k}
    IN {StatsRow(k[1], k[2], k[3], k[4],
                 Cardinality({j[1].id : j \in group(k)}),
                 Cardinality({j[1].paper : j \in group(k)}),
                 Cardinality({j \in group(k) : j[1].is_math_heavy})) :
           k \in {key(j) : j \in joined}}

\* what the view query gives on the tables as they are now
LiveStats ==
    topic_stats_query(question_chunks, question_topic_mappings, syllabus_chunks)

\* the new rows becoming visible one after the other
Publish_RowByRow(old, staging) ==
    {(old \cap staging) \cup X : X \in SUBSET (staging \ old)}

\* what readers can see once a REFRESH has committed: the new contents, whole
Publish(old, staging) == {staging}

\* the view emptied by the refresh that failed
RolledBack_Truncated(old) == {}

\* what readers can see once a REFRESH has failed: the (sub)transaction is
\* rolled back
RolledBack(old) == old

RefreshUnchanged ==
    /\ UNCHANGED <<prob_out, search_req, search_out, insert_out>>
    /\ UNCHANGED tables
    /\ UNCHANGED <<popvars, clientvars>>

\* SELECT refresh_topic_stats(): REFRESH MATERIALIZED VIEW CONCURRENTLY reads
\* the tables and prepares the new contents; readers are not locked out
RefreshStart ==
    /\ refresh.pc = "idle"
    /\ refresh.second # "running"
    /\ refresh' = [refresh EXCEPT !.pc = "concurrent", !.staging = LiveStats,
                                  !.before = topic_stats, !.result = "none"]
    /\ versions' = versions \cup {LiveStats}
    /\ UNCHANGED topic_stats
    /\ RefreshUnchanged

\* the concurrent refresh succeeded and the call commits
ConcurrentCommit ==
    /\ refresh.pc = "concurrent"
    /\ topic_stats' \in Publish(topic_stats, refresh.staging)
    /\ refresh' = [refresh EXCEPT !.pc = "idle", !.staging = {}, !.result = "ok"]
    /\ UNCHANGED versions
    /\ RefreshUnchanged

\* the concurrent refresh raised: EXCEPTION WHEN OTHERS
ConcurrentFails ==
    /\ refresh.pc = "concurrent"
    /\ topic_stats' = RolledBack(topic_stats)
    /\ refresh' = [refresh EXCEPT !.pc = "fallback", !.staging = {}]
    /\ UNCHANGED versions
    /\ RefreshUnchanged

\* the handler: REFRESH MATERIALIZED VIEW under an ACCESS EXCLUSIVE lock
\* reads the tables again and builds the new contents
FallbackBuild ==
    /\ refresh.pc = "fallback"
    /\ refresh.second # "running"
    /\ refresh' = [refresh EXCEPT !.pc = "exclusive", !.staging = LiveStats]
    /\ versions' = versions \cup {LiveStats}
    /\ UNCHANGED topic_stats
    /\ RefreshUnchanged

\* the plain refresh succeeded and the call commits
FallbackCommit ==
    /\ refresh.pc = "exclusive"
    /\ topic_stats' \in Publish(topic_stats, refresh.staging)
    /\ refresh' = [refresh EXCEPT !.pc = "idle", !.staging = {}, !.result = "ok"]
    /\ UNCHANGED versions
    /\ RefreshUnchanged

\* the plain refresh raised as well: the exception leaves the function and
\* the transaction of the caller of refresh_topic_stats is rolled back
FallbackFails ==
    /\ refresh.pc \in {"fallback", "exclusive"}
    /\ topic_stats' = RolledBack(topic_stats)
    /\ refresh' = [refresh EXCEPT !.pc = "idle", !.staging = {}, !.result = "error"]
    /\ UNCHANGED versions
    /\ RefreshUnchanged

\* REFRESH MATERIALIZED VIEW, with or without CONCURRENTLY, holds a lock on
\* the view that excludes every other REFRESH of it until the
\* (sub)transaction ends
RefreshLockHeld == refresh.pc \in {"concurrent", "exclusive"}

\* SELECT refresh_topic_stats() in another session: its REFRESH waits for
\* the lock when a refresh is in progress, else it reads the tables and
\* prepares the new contents
SecondRequest ==
    /\ refresh.second = "idle"
    /\ IF RefreshLockHeld
       THEN /\ refresh' = [refresh EXCEPT !.second = "waiting", !.queued = TRUE]
            /\ UNCHANGED versions
       ELSE /\ refresh' = [refresh EXCEPT !.second = "running", !.queued = FALSE,
                                          !.second_staging = LiveStats]
            /\ versions' = versions \cup {LiveStats}
    /\ UNCHANGED topic_stats
    /\ RefreshUnchanged

\* the lock is free: the waiting REFRESH goes on and builds its contents
SecondAcquire ==
    /\ refresh.second = "waiting"
    /\ ~RefreshLockHeld
    /\ refresh' = [refresh EXCEPT !.second = "running", !.second_staging = LiveStats]
    /\ versions' = versions \cup {LiveStats}
    /\ UNCHANGED topic_stats
    /\ RefreshUnchanged

\* the refresh of the other session succeeded, at the concurrent attempt or
\* at the plain one, and its call commits
SecondCommit ==
    /\ refresh.second = "running"
    /\ topic_stats' \in Publish(topic_stats, refresh.second_staging)
    /\ refresh' = [refresh EXCEPT !.second = "idle", !.second_staging = {}]
    /\ UNCHANGED versions
    /\ RefreshUnchanged

\* both attempts of the other session raised: its call is rolled back
SecondFails ==
    /\ refresh.second = "running"
    /\ topic_stats' = RolledBack(topic_stats)
    /\ refresh' = [refresh EXCEPT !.second = "idle", !.second_staging = {}]
    /\ UNCHANGED versions
    /\ RefreshUnchanged

\* a reader: the SELECT waits while the plain refresh holds its lock
StatsRead(topic_name, subject_name, years_back) ==
    /\ refresh.pc # "exclusive"
    /\ ProbabilityCall(topic_name, subject_name, years_back)

\* the syllabus is loaded, no question yet, the view as it was created
InitRefresh ==
    /\ PopularityIdle
    /\ ClientIdle
    /\ question_chunks = {}
    /\ syllabus_chunks =
          {SyllabusChunk(1, "Pure Mathematics", "Module 1", "Differentiation",
                         [i \in 1..Dim |-> 1])}
    /\ question_topic_mappings = {}
    /\ topic_stats = {}
    /\ refresh = NoRefresh
    /\ versions = {{}}
    /\ prob_out = NoProbability
    /\ search_req = NoRequest
    /\ search_out = NoSearch
    /\ insert_out = NoInsert

NextRefresh ==
    \/ RefreshStart
    \/ ConcurrentCommit
    \/ ConcurrentFails
    \/ FallbackBuild
    \/ FallbackCommit
    \/ FallbackFails
    \/ StatsRead("Differentiation", "Pure Mathematics", 1)
    \/ \E y \in {CurrentYear - 1, CurrentYear} :
          InsertQuestionChunk("Pure Mathematics", [i \in 1..Dim |-> 1], y,
                              "Paper 1", FALSE)
    \/ \E q \in 1..MaxChunks : InsertMapping(q, 1, DefaultConfidence, "semantic")

SpecRefresh == InitRefresh /\ [][NextRefresh]_vars

\* two sessions that call refresh_topic_stats, over growing tables
NextTwoRefresh ==
    \/ RefreshStart
    \/ ConcurrentCommit
    \/ ConcurrentFails
    \/ FallbackBuild
    \/ FallbackCommit
    \/ FallbackFails
    \/ SecondRequest
    \/ SecondAcquire
    \/ SecondCommit
    \/ SecondFails
    \/ \E y \in {CurrentYear - 1, CurrentYear} :
          InsertQuestionChunk("Pure Mathematics", [i \in 1..Dim |-> 1], y,
                              "Paper 1", FALSE)
    \/ \E q \in 1..MaxChunks : InsertMapping(q, 1, DefaultConfidence, "semantic")

SpecTwoRefresh == InitRefresh /\ [][NextTwoRefresh]_vars

\* C17: a reader of topic_stats never meets a partly rebuilt view: what is
\* visible is at every moment a complete result of the view query, and it
\* changes only when a refresh commits, to the whole of what that refresh built.
C17_ReadersSeeCompleteVersion ==
    /\ [](topic_stats \in versions)
    /\ [][topic_stats' # topic_stats =>
             /\ refresh.pc \in {"concurrent", "exclusive"}
             /\ refresh'.pc = "idle"
             /\ refresh'.result = "ok"
             /\ topic_stats' = refresh.staging]_vars

\* a refresh has built contents that differ from the visible ones and a
\* reader was answered in the meantime, from the old contents
C17_Witness ==
    /\ refresh.pc = "concurrent"
    /\ refresh.staging # topic_stats
    /\ topic_stats # {}
    /\ prob_out.called
    /\ prob_out.met_pc = "concurrent"
    /\ prob_out.rows = get_topic_probability_stats(prob_out.topic_name,
                                                   prob_out.subject_name,
                                                   prob_out.years_back)

\* C18: while a refresh runs and after it failed, at the concurrent attempt
\* or at the plain one that follows, the view holds what it held when the
\* refresh started, and a reader is answered from it.
C18_FailedRefreshKeepsVersion ==
    /\ []((refresh.pc # "idle" \/ refresh.result = "error") =>
             topic_stats = refresh.before)
    /\ [][(/\ prob_out' # prob_out
           /\ refresh.pc = "idle"
           /\ refresh.result = "error") =>
             /\ prob_out'.met_result = "error"
             /\ prob_out'.rows =
                   topic_probability(refresh.before, prob_out'.topic_name,
                                     prob_out'.subject_name,
                                     prob_out'.years_back)]_vars

\* both attempts failed while newer data waited, and a reader was answered
\* after that from the earlier contents
C18_Witness ==
    /\ refresh.pc = "idle"
    /\ refresh.result = "error"
    /\ topic_stats # {}
    /\ LiveStats # topic_stats
    /\ prob_out.called
    /\ prob_out.met_result = "error"
    /\ prob_out.rows # {}

\* ---- the probability read of the backend ----
\* The backend (backend/main.py) lies outside the SQL modelled here; the note
\* on the view (part_017:173-174) says that it falls back to the tables when
\* the view is empty.  The read follows that note and the description of the
\* aggregator: with an empty view the slice is computed by the view query
\* over the tables, else it comes from the view.

\* the read without the fallback
probability_read_NoFallback(topic_name, subject_name, years_back) ==
    get_topic_probability_stats(topic_name, subject_name, years_back)

probability_read(topic_name, subject_name, years_back) ==
    IF topic_stats = {}
    THEN topic_probability(LiveStats, topic_name, subject_name, years_back)
    ELSE get_topic_probability_stats(topic_name, subject_name, years_back)

BackendRead(topic_name, subject_name, years_back) ==
    /\ prob_out' = [called |-> TRUE, topic_name |-> topic_name,
                    subject_name |-> subject_name, years_back |-> years_back,
                    rows |-> probability_read(topic_name, subject_name, years_back),
                    path |-> "backend",
                    met_pc |-> refresh.pc, met_result |-> refresh.result]
    /\ UNCHANGED <<topic_stats, refresh, versions, search_req, search_out,
                   insert_out>>
    /\ UNCHANGED tables
    /\ UNCHANGED <<popvars, clientvars>>

\* the syllabus of the read states: the same topic under two modules and a
\* second topic
ReadSyllabus ==
    {SyllabusChunk(1, "Pure Mathematics", "Module 1", "Differentiation",
                   [i \in 1..Dim |-> 1]),
     SyllabusChunk(2, "Pure Mathematics", "Module 2", "Differentiation",
                   [i \in 1..Dim |-> 1]),
     SyllabusChunk(3, "Pure Mathematics", "Module 2", "Integration",
                   [i \in 1..Dim |-> 1])}

\* questions of any subject, with or without a year
ReadQuestions ==
    UNION {{{QuestionChunk(i, f[i][1], [k \in 1..Dim |-> 1], f[i][2], "Paper 1",
                           FALSE) : i \in 1..n} :
               f \in [1..n -> Subjects
                               \X {NullYear, CurrentYear - 1, CurrentYear}]} :
           n \in 0..MaxChunks}

\* tables with questions mapped to sections, and the view either never
\* refreshed since it was created (empty) or refreshed on these tables
InitRead ==
    /\ PopularityIdle
    /\ ClientIdle
    /\ question_chunks \in ReadQuestions
    /\ syllabus_chunks = ReadSyllabus
    /\ question_topic_mappings \in
          SUBSET {Mapping(q.id, t.id, "semantic") :
                     q \in question_chunks, t \in syllabus_chunks}
    /\ topic_stats \in {{}, LiveStats}
    /\ refresh = [NoRefresh EXCEPT !.before = topic_stats,
                                   !.result = IF topic_stats = {} THEN "none"
                                              ELSE "ok"]
    /\ versions = {{}, topic_stats}
    /\ prob_out = NoProbability
    /\ search_req = NoRequest
    /\ search_out = NoSearch
    /\ insert_out = NoInsert

NextRead ==
    \/ \E t \in Topics, s \in Subjects, yb \in {1, MaxYearsBack} :
          BackendRead(t, s, yb)
    \/ \E t \in Topics, s \in Subjects, yb \in {1, MaxYearsBack} :
          ProbabilityCall(t, s, yb)

SpecRead == InitRead /\ [][NextRead]_vars

\* the slice of the live aggregate the last read asked for
AskedLive ==
    {r \in LiveStats : r.topic_title = prob_out.topic_name
                       /\ r.subject = prob_out.subject_name}

C21_OneMappingPerPair ==
    /\ [](\A m1, m2 \in question_topic_mappings :
             (m1.question_id = m2.question_id /\ m1.topic_id = m2.topic_id)
                => m1 = m2)
    /\ [][(/\ insert_out'.table = "question_topic_mappings"
           /\ \E m \in question_topic_mappings :
                 /\ m.question_id = insert_out'.question_id
                 /\ m.topic_id = insert_out'.topic_id)
          => /\ insert_out'.status = "unique_error"
             /\ UNCHANGED question_topic_mappings]_vars

\* an INSERT of a mapped pair was refused and the mapping of the pair, a
\* manual one below the default confidence, is still there
C21_Witness ==
    /\ insert_out.status = "unique_error"
    /\ \E m \in question_topic_mappings :
          /\ m.question_id = insert_out.question_id
          /\ m.topic_id = insert_out.topic_id
          /\ m.mapping_type = "manual"
          /\ m.confidence_score < DefaultConfidence

\* ---------------------------------------------------------------------
\* sanitizeAIError (src/unnamed/part_005): the message shown when the AI
\* analysis of an upload failed.  A string is the sequence of its
\* characters; the three fixed messages are kept whole, as one element.

MaxWords == 2

DefaultMessage == <<"Failed to get AI analysis">>
OCRMessage == <<"Unable to parse OCR output. Please ensure OCR services are properly configured.">>

BadEscape == <<"b", "a", "d", " ", "e", "s", "c", "a", "p", "e">>
InvalidRegularExpression ==
    <<"i", "n", "v", "a", "l", "i", "d", " ", "r", "e", "g", "u", "l", "a", "r",
      " ", "e", "x", "p", "r", "e", "s", "s", "i", "o", "n">>

\* the upper-case letters of the messages, with their lower-case letters
LowerOf ==
    ("B" :> "b") @@ ("A" :> "a") @@ ("D" :> "d") @@ ("E" :> "e") @@ ("S" :> "s")
    @@ ("C" :> "c") @@ ("P" :> "p") @@ ("I" :> "i") @@ ("N" :> "n") @@ ("V" :> "v")
    @@ ("L" :> "l") @@ ("R" :> "r") @@ ("G" :> "g") @@ ("U" :> "u") @@ ("X" :> "x")
    @@ ("O" :> "o")

UpperOf == [c \in {LowerOf[u] : u \in DOMAIN LowerOf} |->
               CHOOSE u \in DOMAIN LowerOf : LowerOf[u] = c]

ToLowerCase(s) == [i \in 1..Len(s) |-> IF s[i] \in DOMAIN LowerOf THEN LowerOf[s[i]] ELSE s[i]]

ToUpperCase(s) == [i \in 1..Len(s) |-> IF s[i] \in DOMAIN UpperOf THEN UpperOf[s[i]] ELSE s[i]]

\* the first letter of every word in upper case
Capitalized(s) ==
    [i \in 1..Len(s) |->
        IF (i = 1 \/ s[i - 1] = " ") /\ s[i] \in DOMAIN UpperOf THEN UpperOf[s[i]] ELSE s[i]]

Contains(s, pattern) ==
    \E i \in 1..(Len(s) - Len(pattern) + 1) : SubSeq(s, i, i + Len(pattern) - 1) = pattern

\* a pattern with the flag i: letters match in either case
ContainsIgnoreCase(s, pattern) == Contains(ToLowerCase(s), ToLowerCase(pattern))

\* /bad escape|invalid regular expression/i.test(original)
RegexTest(original) ==
    \/ ContainsIgnoreCase(original, BadEscape)
    \/ ContainsIgnoreCase(original, InvalidRegularExpression)

\* String.prototype.replace with a global pattern of one character
RECURSIVE ReplaceAll(_, _, _)
ReplaceAll(s, c, replacement) ==
    IF s = <<>> THEN <<>>
    ELSE (IF Head(s) = c THEN replacement ELSE <<Head(s)>>)
            \o ReplaceAll(Tail(s), c, replacement)

\* the three replace calls, in the order of the code; replace never throws
\* on a string, so the catch around them is never entered
EscapeMessage(original) ==
    ReplaceAll(ReplaceAll(ReplaceAll(original, "\\", <<"\\", "\\">>),
                          "\"", <<"\\", "\"">>),
               "'", <<"\\", "'">>)

\* a JavaScript value: undefined, null, a string, an object whose toString
\* gives text, or an object with no conversion to a primitive value
\* (Object.create(null))
Value(kind, text) == [kind |-> kind, text |-> text]

\* the value that was thrown and caught: a falsy value, or an object with
\* its message property
ErrorValue(kind, message) == [kind |-> kind, message |-> message]

ToBoolean(v) ==
    CASE v.kind = "string" -> v.text # <<>>
      [] v.kind \in {"object", "bare_object"} -> TRUE
      [] OTHER -> FALSE

\* String(v) of a truthy value: a TypeError when the object cannot be
\* converted to a primitive value
StringThrows(v) == v.kind = "bare_object"

SanitizeResult(status, value) == [status |-> status, value |-> value]

sanitizeAIError(err) ==
    LET hasMessage == err.kind = "object" /\ ToBoolean(err.message)
    IN  IF hasMessage /\ StringThrows(err.message)
        THEN SanitizeResult("TypeError", <<>>)
        ELSE LET original == IF hasMessage THEN err.message.text ELSE <<>>
             IN  SanitizeResult("returned",
                    IF original = <<>> THEN DefaultMessage
                    ELSE IF RegexTest(original) THEN OCRMessage
                    ELSE EscapeMessage(original))

\* the pieces the messages of the failures are made of
Words ==
    {BadEscape, ToUpperCase(BadEscape), Capitalized(BadEscape),
     InvalidRegularExpression, Capitalized(InvalidRegularExpression),
     <<"b", "a", "d">>, <<" ", "e", "s", "c", "a", "p", "e">>,
     <<"x">>, <<"\\">>, <<"\"">>, <<"'">>}

RECURSIVE Texts(_)
Texts(n) ==
    IF n = 0 THEN {<<>>}
    ELSE Texts(n - 1) \cup {t \o w : t \in Texts(n - 1), w \in Words}

ErrorValues ==
    {ErrorValue("null", NoValue), ErrorValue("undefined", NoValue)}
    \cup {ErrorValue("object", Value(k, <<>>)) : k \in {"undefined", "null", "bare_object"}}
    \cup {ErrorValue("object", Value(k, t)) : k \in {"string", "object"}, t \in Texts(MaxWords)}

Sanitize ==
    /\ sanitize_out.status = "none"
    /\ sanitize_out' = sanitizeAIError(sanitize_in)
    /\ UNCHANGED <<sanitize_in, auth, popvars, libvars>>

InitSanitize ==
    /\ sanitize_in \in ErrorValues
    /\ sanitize_out = NoSanitize
    /\ auth = NoAuth
    /\ PopularityIdle
    /\ LibraryIdle

NextSanitize == Sanitize

SpecSanitize == InitSanitize /\ [][NextSanitize]_vars

\* the text a value carries as its message, if it carries one
MessageText(err) ==
    IF err.kind = "object" /\ err.message.kind \in {"string", "object"}
    THEN err.message.text ELSE <<>>

\* C22: sanitizeAIError gives the OCR message for every message that
\* contains 'bad escape' or 'invalid regular expression' in any case, gives
\* 'Failed to get AI analysis' when there is no message, and returns for
\* every input
C22_SanitizeNeverThrows ==
    sanitize_out.status # "none" =>
        /\ sanitize_out.status = "returned"
        /\ RegexTest(MessageText(sanitize_in)) => sanitize_out.value = OCRMessage
        /\ MessageText(sanitize_in) = <<>> => sanitize_out.value = DefaultMessage

\* the two mappings of C22 alone, for the calls that returned
C22_MappingsWhenReturned ==
    sanitize_out.status = "returned" =>
        /\ RegexTest(MessageText(sanitize_in)) => sanitize_out.value = OCRMessage
        /\ MessageText(sanitize_in) = <<>> => sanitize_out.value = DefaultMessage

\* ---- the order of search results (SpecSearch) ----

SameSimilarity(s1, s2) == ~Nearer(s1, s2) /\ ~Nearer(s2, s1)

\* C23: the rows of a match call come in descending similarity and, among
\* rows of equal similarity, in ascending id, so that the order is fixed by
\* the query and the content of the table.
C23_OrderedBySimilarityThenId ==
    IsMatchCall =>
        \A i, j \in DOMAIN search_out.rows :
            i < j =>
               /\ ~Nearer(search_out.rows[j].similarity, search_out.rows[i].similarity)
               /\ SameSimilarity(search_out.rows[i].similarity,
                                 search_out.rows[j].similarity)
                     => search_out.rows[i].id < search_out.rows[j].id

\* the part of C23 that the ORDER BY gives: descending similarity
C23_DescendingSimilarity ==
    IsMatchCall =>
        \A i, j \in DOMAIN search_out.rows :
            i < j => ~Nearer(search_out.rows[j].similarity, search_out.rows[i].similarity)

\* created_at DEFAULT NOW() of the row of a result: the tables were loaded
\* in the order of the ids, the rows with the same id of the two tables in
\* one transaction, one transaction per clock tick
CreatedAt(r) == r.id

\* C24: the rows of a hybrid call come in descending similarity over both
\* tables and, among rows of equal similarity, the row created last first.
C24_HybridOrderedBySimilarityThenRecency ==
    IsHybridCall =>
        \A i, j \in DOMAIN search_out.rows :
            i < j =>
               /\ ~Nearer(search_out.rows[j].similarity, search_out.rows[i].similarity)
               /\ SameSimilarity(search_out.rows[i].similarity,
                                 search_out.rows[j].similarity)
                     => CreatedAt(search_out.rows[i]) >= CreatedAt(search_out.rows[j])

\* the part of C24 that the ORDER BY gives: descending similarity
C24_HybridDescendingSimilarity ==
    IsHybridCall =>
        \A i, j \in DOMAIN search_out.rows :
            i < j => ~Nearer(search_out.rows[j].similarity, search_out.rows[i].similarity)

\* the hits of a keyword match with the subject filter on a table, when the
\* keyword stands in the text of every chunk of the subject
KeywordHits(chunks) == {r \in chunks : r.subject = search_req.query_subject}

RowsOf(source_table) ==
    {search_out.rows[i] : i \in {k \in DOMAIN search_out.rows :
                                   search_out.rows[k].source_table = source_table}}

\* a searched table whose vector query gave nothing has its keyword hits in
\* the result, as far as match_count allows
LexicalFill(enabled, chunks, source_table) ==
    (/\ enabled
     /\ ~\E r \in chunks :
           /\ r.subject = search_req.query_subject
           /\ DistanceBelow(SimilarityOf(r), search_req.match_threshold))
    => Cardinality(RowsOf(source_table)) >=
          Min(Cardinality(KeywordHits(chunks)), 1)

\* C25: when the vector query of a searched table gives no row, the hits of
\* a keyword match with the same subject filter fill the result up to
\* match_count; when it gives a row, every row of that table in the result
\* is a vector hit.
C25_LexicalFallbackWhenEmpty ==
    (IsHybridCall /\ search_req.match_count >= 2) =>
        /\ LexicalFill(search_req.search_questions, question_chunks, "question_chunks")
        /\ LexicalFill(search_req.search_syllabus, syllabus_chunks, "syllabus_chunks")
        /\ \A r \in Range(search_out.rows) :
              SimilarityAtLeast(r.similarity, search_req.match_threshold)

\* ---- two callers of refresh_topic_stats (SpecTwoRefresh) ----

\* C26: a refresh_topic_stats call that arrives while a refresh is in
\* progress neither waits behind it nor starts a rebuild of its own.
C26_SecondRefreshCoalesced ==
    /\ refresh.second # "waiting"
    /\ refresh.queued => refresh.second # "running"

\* what the lock does give: no two rebuilds at the same time
C26_OneRebuildAtATime == ~(RefreshLockHeld /\ refresh.second = "running")

\* ---- the interaction types of the ledger (Spec) ----

\* C27: every committed row of question_interactions has one of the types
\* view, share and favorite; a call with another type adds no row.
C27_LedgerTypesRestricted ==
    \A r \in BagToSet(ledger) : r.interaction_type \in {"view", "share", "favorite"}

\* ---- the range of the probability score (SpecProb) ----

\* C28: with years_back >= 1 and no view row of a year after the current
\* one, the score of every returned row lies between 0 and 1.
C28_ScoreWithinUnit ==
    (/\ prob_out.called
     /\ prob_out.years_back >= 1
     /\ \A x \in topic_stats : x.year <= CurrentYear)
    => \A r \in prob_out.rows :
          /\ r.probability_score.den > 0
          /\ 0 <= r.probability_score.num
          /\ r.probability_score.num <= r.probability_score.den

\* ---- the counts of the view rows (SpecAggregate) ----

\* one row per syllabus objective: two objectives of the same module and
\* topic, and one of another topic
AggregateSyllabus ==
    {SyllabusChunk(1, "Pure Mathematics", "Module 1", "Differentiation",
                   [i \in 1..Dim |-> 1]),
     SyllabusChunk(2, "Pure Mathematics", "Module 1", "Differentiation",
                   [i \in 1..Dim |-> 1]),
     SyllabusChunk(3, "Pure Mathematics", "Module 2", "Integration",
                   [i \in 1..Dim |-> 1])}

\* questions of the last two years, math-heavy or not
AggregateQuestions ==
    UNION {{{QuestionChunk(i, "Pure Mathematics", [k \in 1..Dim |-> 1], f[i][1],
                           "Paper 1", f[i][2]) : i \in 1..n} :
               f \in [1..n -> {CurrentYear - 1, CurrentYear} \X BOOLEAN]} :
           n \in 0..MaxChunks}

\* tables with questions mapped to one or more objectives, and the view as
\* it was created
InitAggregate ==
    /\ PopularityIdle
    /\ ClientIdle
    /\ question_chunks \in AggregateQuestions
    /\ syllabus_chunks = AggregateSyllabus
    /\ question_topic_mappings \in
          SUBSET {Mapping(q.id, t.id, "semantic") :
                     q \in question_chunks, t \in syllabus_chunks}
    /\ topic_stats = {}
    /\ refresh = NoRefresh
    /\ versions = {{}}
    /\ prob_out = NoProbability
    /\ search_req = NoRequest
    /\ search_out = NoSearch
    /\ insert_out = NoInsert

NextAggregate ==
    \/ RefreshStart
    \/ ConcurrentCommit
    \/ ConcurrentFails
    \/ FallbackBuild
    \/ FallbackCommit
    \/ FallbackFails

SpecAggregate == InitAggregate /\ [][NextAggregate]_vars

\* C29: in every row of the view the number of math-heavy questions is at
\* most the number of questions of the row.
C29_MathHeavyAtMostOccurrences ==
    \A r \in topic_stats : r.math_heavy_count <= r.occurrence_ct

\* the same with one mapping at most for each question: the rows agree
C29_HoldsWithSingleMappings ==
    (\A m1, m2 \in question_topic_mappings :
        m1.question_id = m2.question_id => m1 = m2)
    => \A r \in topic_stats : r.math_heavy_count <= r.occurrence_ct

\* ---------------------------------------------------------------------
\* AuthProvider (src/frontend/src/context/AuthProvider.jsx): the bootstrap
\* effect and the auth-state listener.  The Supabase client is the
\* environment: getSession settles and events arrive at any time.

\* setTimeout(..., 3000), in seconds
TimeoutSeconds == 3

AuthUnchanged == UNCHANGED <<sanitize_in, sanitize_out, popvars, libvars>>

\* a second passes while the bootstrap waits
AuthTick ==
    /\ auth.boot = "running"
    /\ auth.race = "pending"
    /\ auth.elapsed < TimeoutSeconds
    /\ auth' = [auth EXCEPT !.elapsed = @ + 1]
    /\ AuthUnchanged

\* supabase.auth.getSession() resolves with the session the client holds
GetSessionResolves ==
    /\ auth.boot = "running"
    /\ auth.race = "pending"
    /\ auth' = [auth EXCEPT !.race = "fulfilled", !.fetched = auth.supabase]
    /\ AuthUnchanged

\* supabase.auth.getSession() rejects
GetSessionRejects ==
    /\ auth.boot = "running"
    /\ auth.race = "pending"
    /\ auth' = [auth EXCEPT !.race = "rejected"]
    /\ AuthUnchanged

\* the timer fires first: reject(new Error('Supabase timeout'))
TimeoutFires ==
    /\ auth.boot = "running"
    /\ auth.race = "pending"
    /\ auth.elapsed = TimeoutSeconds
    /\ auth' = [auth EXCEPT !.race = "rejected"]
    /\ AuthUnchanged

\* guest ? 'guest' : null
GuestOrNull(guest) == IF guest THEN "guest" ELSE "null"

\* the await returned: setSession(session ?? (guest ? 'guest' : null)), and
\* the finally block
BootstrapTry ==
    /\ auth.boot = "running"
    /\ auth.race = "fulfilled"
    /\ auth' = [auth EXCEPT
                  !.session = IF auth.fetched # "null" THEN auth.fetched
                              ELSE GuestOrNull(auth.guest),
                  !.by_listener = FALSE,
                  !.loading = FALSE,
                  !.boot = "done"]
    /\ AuthUnchanged

\* the await threw: setSession(guest ? 'guest' : null), and the finally block
BootstrapCatch ==
    /\ auth.boot = "running"
    /\ auth.race = "rejected"
    /\ auth' = [auth EXCEPT !.session = GuestOrNull(auth.guest),
                            !.by_listener = FALSE,
                            !.loading = FALSE,
                            !.boot = "done"]
    /\ AuthUnchanged

\* the listener on SIGNED_IN or TOKEN_REFRESHED: setSession(sess),
\* setLoading(false); without a listener the component does not hear of it
SessionEvent(event) ==
    /\ event = "TOKEN_REFRESHED" => auth.supabase = "user"
    /\ auth' = IF auth.subscribed
               THEN [auth EXCEPT !.supabase = "user", !.session = "user",
                                 !.loading = FALSE, !.by_listener = TRUE]
               ELSE [auth EXCEPT !.supabase = "user"]
    /\ auth' # auth
    /\ AuthUnchanged

\* the listener on SIGNED_OUT: setSession(null), removeItem, setLoading(false)
SignedOut ==
    /\ auth.supabase = "user"
    /\ auth' = IF auth.subscribed
               THEN [auth EXCEPT !.supabase = "null", !.session = "null",
                                 !.guest = FALSE, !.loading = FALSE,
                                 !.by_listener = FALSE]
               ELSE [auth EXCEPT !.supabase = "null"]
    /\ AuthUnchanged

\* loginGuest: setItem('cape_session', 'guest'), setSession('guest'),
\* setLoading(false)
LoginGuest ==
    /\ auth.session # "guest"
    /\ auth' = [auth EXCEPT !.guest = TRUE, !.session = "guest",
                            !.loading = FALSE, !.by_listener = FALSE]
    /\ AuthUnchanged

\* the component has just mounted: the browser may hold a guest marker and
\* the Supabase client a stored session; the listener was registered or
\* onAuthStateChange threw
InitAuth ==
    /\ auth \in {[NoAuth EXCEPT !.guest = g, !.supabase = s, !.subscribed = b] :
                    g \in BOOLEAN, s \in {"null", "user"}, b \in BOOLEAN}
    /\ sanitize_in = [kind |-> "undefined", message |-> NoValue]
    /\ sanitize_out = NoSanitize
    /\ PopularityIdle
    /\ LibraryIdle

NextAuth ==
    \/ AuthTick
    \/ GetSessionResolves
    \/ GetSessionRejects
    \/ TimeoutFires
    \/ BootstrapTry
    \/ BootstrapCatch
    \/ \E event \in {"SIGNED_IN", "TOKEN_REFRESHED"} : SessionEvent(event)
    \/ SignedOut
    \/ LoginGuest

SpecAuth == InitAuth /\ [][NextAuth]_vars

\* C30: once the listener has set the session on SIGNED_IN or
\* TOKEN_REFRESHED, the end of the bootstrap, by its try branch or by its
\* catch branch, does not put null or 'guest' in its place.
C30_BootstrapKeepsListenerSession ==
    [][(/\ auth.by_listener
        /\ auth.boot = "running"
        /\ auth'.boot = "done")
       => auth'.session \notin {"null", "guest"}]_vars

\* the same for the try branch when getSession resolved after the event
C30_TryAfterEventKeepsSession ==
    [][(/\ auth.by_listener
        /\ auth.boot = "running"
        /\ auth.race = "fulfilled"
        /\ auth.fetched = "user"
        /\ auth'.boot = "done")
       => auth'.session = "user"]_vars

====
